---- MODULE Spec2Model ----
(***************************************************************************)
(* A model of the shared-memory sorted set (sorted_set.rs), the keyed map  *)
(* built on it (map.rs), the record encodings (oracle.rs, and the test     *)
(* record Pair of sorted_set.rs) and the shared-memory handle (shm.rs).    *)
(*                                                                         *)
(* The region is modelled byte for byte, as the sequence of its bytes: the *)
(* byte at offset o is Byte(mem, o), the (o+1)-th element.                 *)
(* A slice expression of the source that would go out of the bounds of the *)
(* mapped slice panics; the model carries that outcome as a "Panic" tag    *)
(* and keeps the bytes written before the panic.                           *)
(***************************************************************************)
EXTENDS Integers, Sequences, FiniteSets, TLC

(***************************************************************************)
(* Bounds of the model.                                                    *)
(***************************************************************************)
\* Number of record slots that fit in the region.
MaxRecords == 3
\* Bytes of the region after the last whole slot (fewer than one record).
Slack == 5

(***************************************************************************)
(* Program constants.                                                      *)
(***************************************************************************)
LEN_SIZE == 4
PairSize == 16
TickerSize == 8
PriceSize == 8
EntrySize == TickerSize + PriceSize

\* The size handed to Shm::open_or_create: capacity sizing contract plus slack.
RegionSize == LEN_SIZE + PairSize * MaxRecords + Slack

\* Keys and values the callers use. One more key than there are slots, so
\* that an insert into a full region happens; 300 needs two bytes.
Keys == {100 * i : i \in 0..MaxRecords}
Values == {1, 2}

NoVal == 0 - 1

(***************************************************************************)
(* Byte buffers: sequences of bytes; offsets count from 0 as in the source.*)
(***************************************************************************)
BLen(b) == Len(b)

\* b[o]
Byte(b, o) == b[o + 1]

\* &b[from..to]; the caller has checked from <= to <= BLen(b).
Slice(b, from, to) == SubSeq(b, from + 1, to)

\* Does &b[from..to] stay inside b (otherwise the slice expression panics).
InBounds(b, from, to) == from <= to /\ to <= BLen(b)

\* b[at..at+BLen(src)].copy_from_slice(src), the range being inside b.
CopyInto(b, at, src) ==
    SubSeq(b, 1, at) \o src \o SubSeq(b, at + BLen(src) + 1, BLen(b))

\* LittleEndian::read_u32: the first four bytes of b, least significant first.
read_u32(b) == b[1] + 256 * (b[2] + 256 * (b[3] + 256 * b[4]))

\* LittleEndian::read_u64: the first eight bytes of b, least significant first.
read_u64(b) ==
    b[1] + 256 * (b[2] + 256 * (b[3] + 256 * (b[4]
         + 256 * (b[5] + 256 * (b[6] + 256 * (b[7] + 256 * b[8]))))))

\* LittleEndian::write_u32: the four low bytes of x, least significant first.
write_u32(x) ==
    <<x % 256, (x \div 256) % 256, (x \div 65536) % 256, (x \div 16777216) % 256>>

\* LittleEndian::write_u64: the eight bytes of x, least significant first.
write_u64(x) == write_u32(x) \o write_u32((x \div 65536) \div 65536)

Concat(a, b) == a \o b

(***************************************************************************)
(* Record encodings.                                                       *)
(***************************************************************************)
\* impl Binary for Pair (tests)
PairToBytes(p) == Concat(write_u64(p.key), write_u64(p.value))
PairFromBytes(b) == [key |-> read_u64(Slice(b, 0, 8)), value |-> read_u64(Slice(b, 8, 16))]

\* impl Binary for Ticker / Price
TickerToBytes(t) == write_u64(t)
TickerFromBytes(b) == read_u64(Slice(b, 0, 8))
PriceToBytes(p) == write_u64(p)
PriceFromBytes(b) == read_u64(Slice(b, 0, 8))

\* impl Binary for Entry<K, V>, with K = Ticker and V = Price
EntryToBytes(e) == Concat(TickerToBytes(e.key), PriceToBytes(e.value))

\* Entry::from_bytes taking the value from the key's bytes and the key from
\* the value's.
EntryFromBytesSwapped(b) ==
    [key |-> TickerFromBytes(Slice(b, TickerSize, TickerSize + PriceSize)),
     value |-> PriceFromBytes(Slice(b, 0, TickerSize))]

EntryFromBytes(b) ==
    [key |-> TickerFromBytes(Slice(b, 0, TickerSize)),
     value |-> PriceFromBytes(Slice(b, TickerSize, TickerSize + PriceSize))]

(***************************************************************************)
(* Comparators.                                                            *)
(***************************************************************************)
\* u64::cmp
OrdCmp(x, y) == IF x < y THEN "Less" ELSE IF x = y THEN "Equal" ELSE "Greater"

\* impl BinaryCmp for Pair
PairCmp(left, right) == OrdCmp(read_u64(Slice(left, 0, 8)), read_u64(Slice(right, 0, 8)))

\* impl BinaryCmp for Ticker
TickerCmp(left, right) == OrdCmp(TickerFromBytes(left), TickerFromBytes(right))

\* An Entry comparator that goes on to the value bytes when the keys are equal.
EntryCmpWithValue(left, right) ==
    LET k == TickerCmp(Slice(left, 0, TickerSize), Slice(right, 0, TickerSize)) IN
    IF k # "Equal" THEN k
    ELSE OrdCmp(PriceFromBytes(Slice(left, TickerSize, TickerSize + PriceSize)),
                PriceFromBytes(Slice(right, TickerSize, TickerSize + PriceSize)))

\* impl BinaryCmp for Entry<K, V>
EntryCmp(left, right) == TickerCmp(Slice(left, 0, TickerSize), Slice(right, 0, TickerSize))

\* The probes handed to find_index. Comparator<T> holds a whole encoded
\* record, KeyCmp<K> an encoded key.
PairComparator(buffer) == [kind |-> "Pair", buffer |-> buffer]
EntryComparator(buffer) == [kind |-> "Entry", buffer |-> buffer]
KeyCmpNew(key) == [kind |-> "Key", buffer |-> TickerToBytes(key)]

\* Cmp::cmp whose Entry probe goes on to the value bytes when the keys are equal.
CmpWholeRecord(probe, order) ==
    CASE probe.kind = "Pair" -> PairCmp(probe.buffer, order)
      [] probe.kind = "Entry" -> EntryCmpWithValue(probe.buffer, order)
      [] probe.kind = "Key" -> TickerCmp(probe.buffer, Slice(order, 0, TickerSize))

\* Cmp::cmp(&self, order) of the three probes.
Cmp(probe, order) ==
    CASE probe.kind = "Pair" -> PairCmp(probe.buffer, order)
      [] probe.kind = "Entry" -> EntryCmp(probe.buffer, order)
      [] probe.kind = "Key" -> TickerCmp(probe.buffer, Slice(order, 0, TickerSize))

(***************************************************************************)
(* The sorted set over a region m. Both record types take 16 bytes.        *)
(***************************************************************************)
None == [tag |-> "None"]
Some(x) == [tag |-> "Some", val |-> x]

\* SortedSet::len
len(m) == read_u32(Slice(m, 0, LEN_SIZE))

\* SortedSet::offset
offset(index) == PairSize * index + LEN_SIZE

\* SortedSet::set_len: the four low bytes of n are written (len as u32).
set_len(m, n) == CopyInto(m, 0, write_u32(n))

\* clear that also fills the records with zero bytes.
clear_zeroing(m) == [o \in 1..BLen(m) |-> 0]

\* SortedSet::clear
clear(m) == set_len(m, 0)

\* SortedSet::get_by_index: the slice is taken only when it is in bounds.
get_by_index(m, index) == Slice(m, offset(index), offset(index) + PairSize)
get_by_index_ok(m, index) == InBounds(m, offset(index), offset(index) + PairSize)

RECURSIVE find_loop(_, _, _, _)
\* The loop leaving as soon as one candidate is left, without probing it.
find_loop_early_exit(m, order, lo, hi) ==
    LET middle == (lo + hi) \div 2 IN
    IF ~get_by_index_ok(m, middle) THEN [tag |-> "Panic"]
    ELSE LET c == Cmp(order, get_by_index(m, middle))
             list == IF c = "Less" THEN <<lo, middle>> ELSE <<middle + 1, hi>>
         IN IF c = "Equal" THEN [tag |-> "Index", index |-> middle]
            ELSE IF list[1] + 1 >= list[2] THEN [tag |-> "LastRange", range |-> list]
            ELSE find_loop(m, order, list[1], list[2])

\* The loop taking hi as the last candidate: Less narrows to (lo, middle - 1).
find_loop_closed_range(m, order, lo, hi) ==
    LET middle == (lo + hi) \div 2 IN
    IF ~get_by_index_ok(m, middle) THEN [tag |-> "Panic"]
    ELSE LET c == Cmp(order, get_by_index(m, middle))
             list == IF c = "Less" THEN <<lo, middle - 1>> ELSE <<middle + 1, hi>>
         IN IF c = "Equal" THEN [tag |-> "Index", index |-> middle]
            ELSE IF list[1] >= list[2] THEN [tag |-> "LastRange", range |-> list]
            ELSE find_loop(m, order, list[1], list[2])

\* The loop of SortedSet::find_index with list = (lo, hi).
find_loop(m, order, lo, hi) ==
    LET middle == (lo + hi) \div 2 IN
    IF ~get_by_index_ok(m, middle) THEN [tag |-> "Panic"]
    ELSE LET c == Cmp(order, get_by_index(m, middle))
             list == IF c = "Less" THEN <<lo, middle>> ELSE <<middle + 1, hi>>
         IN IF c = "Equal" THEN [tag |-> "Index", index |-> middle]
            ELSE IF list[1] >= list[2] THEN [tag |-> "LastRange", range |-> list]
            ELSE find_loop(m, order, list[1], list[2])

\* SortedSet::find_index
find_index(m, order) ==
    IF len(m) = 0 THEN [tag |-> "LastRange", range |-> <<0, 0>>]
    ELSE find_loop(m, order, 0, len(m))

\* A round of shift_right that never checks the slice bounds.
shift_one_unchecked(m, index) == TRUE

\* One round of the loop of shift_right: the record at index moves one slot up.
\* split_at_mut(next_offset) needs next_offset <= len, right[0..size] needs
\* size bytes after it.
shift_one_ok(m, index) ==
    LET next_offset == offset(index) + PairSize IN
    next_offset <= BLen(m) /\ PairSize <= BLen(m) - next_offset
shift_one(m, index) ==
    CopyInto(m, offset(index) + PairSize, Slice(m, offset(index), offset(index) + PairSize))

RECURSIVE shift_from(_, _, _)
\* The rounds of shift_right for the indices i, i-1, ..., index.
shift_from(m, i, index) ==
    IF i < index THEN [mem |-> m, panic |-> FALSE]
    ELSE IF ~shift_one_ok(m, i) THEN [mem |-> m, panic |-> TRUE]
    ELSE shift_from(shift_one(m, i), i - 1, index)

RECURSIVE shift_from_up(_, _, _)
\* The rounds of a shift that starts at the lowest index: i, i+1, ..., top.
shift_from_up(m, i, top) ==
    IF i > top THEN [mem |-> m, panic |-> FALSE]
    ELSE IF ~shift_one_ok(m, i) THEN [mem |-> m, panic |-> TRUE]
    ELSE shift_from_up(shift_one(m, i), i + 1, top)

\* shift_right going up from index: a record is overwritten before it is copied.
shift_right_ascending(m, index) == shift_from_up(m, index, len(m) - 1)

\* shift_right starting one slot too high: the record at index is not moved.
shift_right_skip_first(m, index) == shift_from(m, len(m) - 1, index + 1)

\* SortedSet::shift_right
shift_right(m, index) == shift_from(m, len(m) - 1, index)

\* store_at_index through an unchecked pointer: it writes past the end.
store_at_index_unchecked(m, index, buffer) ==
    [mem |-> SubSeq(m, 1, offset(index)) \o buffer
                 \o SubSeq(m, offset(index) + PairSize + 1, BLen(m)),
     panic |-> FALSE, arm |-> "Index"]

\* SortedSet::store_at_index
store_at_index(m, index, buffer) ==
    IF InBounds(m, offset(index), offset(index) + PairSize)
    THEN [mem |-> CopyInto(m, offset(index), buffer), panic |-> FALSE, arm |-> "Index"]
    ELSE [mem |-> m, panic |-> TRUE, arm |-> "Index"]

\* add without the update arm: a record that compares equal is inserted again.
add_always_insert(m, buffer, cmp) ==
    LET f == find_index(m, cmp)
        start == IF f.tag = "Index" THEN f.index ELSE f.range[1]
        s == shift_right(m, start)
        t == store_at_index(s.mem, start, buffer)
    IN IF f.tag = "Panic" THEN [mem |-> m, panic |-> TRUE, arm |-> "Panic"]
       ELSE IF s.panic THEN [mem |-> s.mem, panic |-> TRUE, arm |-> "LastRange"]
       ELSE IF t.panic THEN [mem |-> t.mem, panic |-> TRUE, arm |-> "LastRange"]
       ELSE [mem |-> set_len(t.mem, len(t.mem) + 1), panic |-> FALSE, arm |-> "LastRange"]

\* add whose update arm keeps the stored record: the first encoding wins.
add_keep_first(m, buffer, cmp) ==
    LET f == find_index(m, cmp) IN
    CASE f.tag = "Panic" -> [mem |-> m, panic |-> TRUE, arm |-> "Panic"]
      [] f.tag = "Index" -> [mem |-> m, panic |-> FALSE, arm |-> "Index"]
      [] f.tag = "LastRange" ->
           LET start == f.range[1]
               s == shift_right(m, start)
               t == store_at_index(s.mem, start, buffer)
           IN IF s.panic THEN [mem |-> s.mem, panic |-> TRUE, arm |-> "LastRange"]
              ELSE IF t.panic THEN [mem |-> t.mem, panic |-> TRUE, arm |-> "LastRange"]
              ELSE [mem |-> set_len(t.mem, len(t.mem) + 1), panic |-> FALSE,
                    arm |-> "LastRange"]

\* SortedSet::add, after the record has been encoded into buffer.
add(m, buffer, cmp) ==
    LET f == find_index(m, cmp) IN
    CASE f.tag = "Panic" -> [mem |-> m, panic |-> TRUE, arm |-> "Panic"]
      [] f.tag = "Index" -> store_at_index(m, f.index, buffer)
      [] f.tag = "LastRange" ->
           LET start == f.range[1]
               s == shift_right(m, start)
               t == store_at_index(s.mem, start, buffer)
           IN IF s.panic THEN [mem |-> s.mem, panic |-> TRUE, arm |-> "LastRange"]
              ELSE IF t.panic THEN [mem |-> t.mem, panic |-> TRUE, arm |-> "LastRange"]
              ELSE [mem |-> set_len(t.mem, len(t.mem) + 1), panic |-> FALSE,
                    arm |-> "LastRange"]

\* T::from_bytes for the record type T
from_bytes(T, b) ==
    CASE T = "Pair" -> PairFromBytes(b)
      [] T = "Entry" -> EntryFromBytes(b)
      [] T = "Ticker" -> TickerFromBytes(b)
      [] T = "Price" -> PriceFromBytes(b)

\* T::to_bytes into a buffer of T::const_size() bytes
to_bytes(T, r) ==
    CASE T = "Pair" -> PairToBytes(r)
      [] T = "Entry" -> EntryToBytes(r)
      [] T = "Ticker" -> TickerToBytes(r)
      [] T = "Price" -> PriceToBytes(r)

\* T::const_size
const_size(T) ==
    CASE T = "Pair" -> PairSize
      [] T = "Entry" -> EntrySize
      [] T = "Ticker" -> TickerSize
      [] T = "Price" -> PriceSize

\* get with the bound test off by one: index = len passes.
get_off_by_one(m, index, T) ==
    IF index > len(m) THEN None
    ELSE IF ~get_by_index_ok(m, index) THEN [tag |-> "Panic"]
    ELSE Some(from_bytes(T, get_by_index(m, index)))

\* SortedSet::get, decoding with from_bytes
get(m, index, T) ==
    IF index >= len(m) THEN None
    ELSE IF ~get_by_index_ok(m, index) THEN [tag |-> "Panic"]
    ELSE Some(from_bytes(T, get_by_index(m, index)))

\* SortedSet::find
find(m, order, T) ==
    LET f == find_index(m, order) IN
    CASE f.tag = "Panic" -> [tag |-> "Panic"]
      [] f.tag = "Index" ->
           IF get_by_index_ok(m, f.index) THEN Some(from_bytes(T, get_by_index(m, f.index)))
           ELSE [tag |-> "Panic"]
      [] f.tag = "LastRange" -> None

RECURSIVE iter_from(_, _)
\* SetIterator::next called until it returns None, collected (Pair records).
iter_from(m, index) ==
    LET value == get(m, index, "Pair") IN
    IF value.tag = "Some" THEN <<value.val>> \o iter_from(m, index + 1) ELSE <<>>

\* SortedSet::to_vec
to_vec(m) == iter_from(m, 0)

\* ShmMap::get
map_get(m, key) ==
    LET e == find(m, KeyCmpNew(key), "Entry") IN
    IF e.tag = "Some" THEN Some(e.val.value) ELSE e

(***************************************************************************)
(* State.                                                                  *)
(***************************************************************************)
VARIABLES
    mem,    \* the bytes of the mapped region
    last,   \* the last call made on the region: its name, arguments and result
    ref,    \* the abstract map: key -> value of the last add/put since clear
    wr,     \* the writer process: where it stands inside add
    rd,     \* a reader process: where it stands inside get, find or an iteration
    hsize,  \* Shm::size of the handle the calls go through
    wsize,  \* Shm::size of the handle that wrote the region last
    sys,    \* a process inside Shm::open / create / open_or_create or drop
    enc     \* a record on its way through to_bytes and from_bytes

vars == <<mem, last, ref, wr, rd, hsize, wsize, sys, enc>>

\* The sizes a handle is opened with: the size the region was created with,
\* and the size of a region of one record.
OpenSizes == {RegionSize, LEN_SIZE + PairSize}

\* shm_open that calls ftruncate(fd, size) whatever fstat reports: a longer
\* object is cut, a shorter one grows by zero bytes.
shm_open_size_always(file, size) ==
    IF size <= Len(file) THEN SubSeq(file, 1, size)
    ELSE file \o [o \in 1..(size - Len(file)) |-> 0]

\* Shm::shm_open once the descriptor is open: ftruncate(fd, size) runs only
\* when fstat reports a size of 0, and makes size zero bytes.
shm_open_size(file, size) == IF Len(file) = 0 THEN [o \in 1..size |-> 0] ELSE file

\* Shm::new, every system call succeeding: the object's bytes after shm_open
\* and the length of the mapping.
ShmNew(file, size) == [file |-> shm_open_size(file, size), size |-> size]

\* Shm::memory: the slice of size bytes over the mapping.
Memory(file, size) == SubSeq(file, 1, size)

\* The object after the slice v of a handle has been written through.
WrittenThrough(file, v) == v \o SubSeq(file, Len(v) + 1, Len(file))

\* The writer between two calls.
WriterIdle == [pc |-> "idle", i |-> NoVal, start |-> NoVal, insert |-> FALSE, buffer |-> <<>>]

\* The reader between two calls. Inside a call, len is the count it loaded
\* at the start of the call.
ReaderIdle ==
    [pc |-> "idle", op |-> "none", key |-> NoVal, index |-> NoVal, len |-> NoVal,
     lo |-> NoVal, hi |-> NoVal]

Call(op, key, value, index, ret) ==
    [op |-> op, key |-> key, value |-> value, index |-> index, ret |-> ret]

\* SortedSet::is_empty
is_empty(m) == len(m) = 0

\* No record is being encoded.
EncIdle == [pc |-> "idle", T |-> "none", r |-> NoVal, bytes |-> <<>>, out |-> NoVal]

\* The process between two calls on Shm, holding no handle: no call has
\* returned yet, no descriptor is open, the named object exists.
SysIdle ==
    [pc |-> "idle", op |-> "none", flag |-> "none", size |-> NoVal, exists |-> TRUE,
     fd |-> FALSE, handle |-> FALSE, ret |-> "none", failed |-> {}, opened |-> 0,
     closes |-> 0, munmaps |-> 0, logged |-> 0, aborted |-> FALSE]

\* A fresh shared-memory object is zero-filled by ftruncate; the callers
\* start with clear().
Init ==
    /\ mem = set_len(ShmNew(<<>>, RegionSize).file, 0)
    /\ hsize = RegionSize
    /\ wsize = RegionSize
    /\ last = Call("clear", NoVal, NoVal, NoVal, None)
    /\ ref = [k \in Keys |-> NoVal]
    /\ wr = WriterIdle
    /\ rd = ReaderIdle
    /\ sys = SysIdle
    /\ enc = EncIdle

\* add returns (); the tag records which arm of add ran, or that it panicked.
Outcome(r) == IF r.panic THEN [tag |-> "Panic"] ELSE [tag |-> r.arm]

\* SortedSet::clear
Clear ==
    /\ UNCHANGED <<wr, rd, hsize, sys, enc>>
    /\ mem' = WrittenThrough(mem, clear(Memory(mem, hsize)))
    /\ wsize' = hsize
    /\ last' = Call("clear", NoVal, NoVal, NoVal, None)
    /\ ref' = [k \in Keys |-> NoVal]

\* ShmMap::clear
MapClear ==
    /\ UNCHANGED <<wr, rd, hsize, sys, enc>>
    /\ mem' = WrittenThrough(mem, clear(Memory(mem, hsize)))
    /\ wsize' = hsize
    /\ last' = Call("map_clear", NoVal, NoVal, NoVal, None)
    /\ ref' = [k \in Keys |-> NoVal]

\* SortedSet<Pair>::add(Pair::new(key, value))
Add(key, value) ==
    \E buffer \in {PairToBytes([key |-> key, value |-> value])} :
    \E r \in {add(Memory(mem, hsize), buffer, PairComparator(buffer))} :
       /\ UNCHANGED <<wr, rd, hsize, sys, enc>>
       /\ mem' = WrittenThrough(mem, r.mem)
       /\ wsize' = hsize
       /\ last' = Call("add", key, value, NoVal, Outcome(r))
       /\ ref' = IF r.panic THEN ref ELSE [ref EXCEPT ![key] = value]

\* ShmMap<Ticker, Price>::put(key, value)
Put(key, value) ==
    \E buffer \in {EntryToBytes([key |-> key, value |-> value])} :
    \E r \in {add(Memory(mem, hsize), buffer, EntryComparator(buffer))} :
       /\ UNCHANGED <<wr, rd, hsize, sys, enc>>
       /\ mem' = WrittenThrough(mem, r.mem)
       /\ wsize' = hsize
       /\ last' = Call("put", key, value, NoVal, Outcome(r))
       /\ ref' = IF r.panic THEN ref ELSE [ref EXCEPT ![key] = value]

\* SortedSet<Pair>::get(index)
GetAt(index) ==
    /\ last' = Call("get", NoVal, NoVal, index, get(Memory(mem, hsize), index, "Pair"))
    /\ UNCHANGED <<mem, ref, wr, rd, hsize, wsize, sys, enc>>

\* SortedSet<Entry>::find(KeyCmp::new(key))
Find(key) ==
    /\ last' = Call("find", key, NoVal, NoVal, find(Memory(mem, hsize), KeyCmpNew(key), "Entry"))
    /\ UNCHANGED <<mem, ref, wr, rd, hsize, wsize, sys, enc>>

\* ShmMap::get(key)
MapGet(key) ==
    /\ last' = Call("map_get", key, NoVal, NoVal, map_get(Memory(mem, hsize), key))
    /\ UNCHANGED <<mem, ref, wr, rd, hsize, wsize, sys, enc>>

\* SortedSet::is_empty
IsEmpty ==
    /\ last' = Call("is_empty", NoVal, NoVal, NoVal, Some(is_empty(Memory(mem, hsize))))
    /\ UNCHANGED <<mem, ref, wr, rd, hsize, wsize, sys, enc>>

\* SortedSet::to_vec
ToVec ==
    /\ last' = Call("to_vec", NoVal, NoVal, NoVal, Some(to_vec(Memory(mem, hsize))))
    /\ UNCHANGED <<mem, ref, wr, rd, hsize, wsize, sys, enc>>

Next ==
    \/ Clear
    \/ MapClear
    \/ \E k \in Keys, v \in Values : Add(k, v)
    \/ \E k \in Keys, v \in Values : Put(k, v)
    \/ \E i \in 0..(MaxRecords + 1) : GetAt(i)
    \/ \E k \in Keys : Find(k)
    \/ \E k \in Keys : MapGet(k)
    \/ IsEmpty
    \/ ToVec

Spec == Init /\ [][Next]_vars

(***************************************************************************)
(* Handles on the named region. The region exists with a nonzero size from *)
(* the start; a process attaches again with open, create or                *)
(* open_or_create and the size it passes, and goes on through the new      *)
(* handle's slice.                                                         *)
(***************************************************************************)
Attach(size) ==
    /\ \E h \in {ShmNew(mem, size)} :
          /\ mem' = h.file
          /\ hsize' = h.size
    /\ UNCHANGED <<ref, wr, rd, wsize, sys, enc>>

\* Shm::open: shm_open with O_RDWR finds the object.
Open(size) ==
    /\ Attach(size)
    /\ last' = Call("open", NoVal, NoVal, NoVal, [tag |-> "Ok"])

\* Shm::create: shm_open with O_RDWR | O_CREAT opens the object that exists.
Create(size) ==
    /\ Attach(size)
    /\ last' = Call("create", NoVal, NoVal, NoVal, [tag |-> "Ok"])

\* Shm::open_or_create: open succeeds, create is not tried.
OpenOrCreate(size) ==
    /\ Attach(size)
    /\ last' = Call("open_or_create", NoVal, NoVal, NoVal, [tag |-> "Ok"])

NextShm ==
    \/ \E size \in OpenSizes : Open(size)
    \/ \E size \in OpenSizes : Create(size)
    \/ \E size \in OpenSizes : OpenOrCreate(size)
    \/ \E k \in Keys, v \in Values : Add(k, v)
    \/ Clear
    \/ \E i \in 0..(MaxRecords + 1) : GetAt(i)

SpecShm == Init /\ [][NextShm]_vars

(***************************************************************************)
(* Shm::open, create, open_or_create and drop, one system call at a time.  *)
(* Each system call succeeds or fails as the system decides. A descriptor  *)
(* is released by close whatever close returns (close(2) on Linux). The    *)
(* process holds one handle at a time. Ghost fields of sys, reset when a   *)
(* call begins: failed (the system calls that failed, with the flag of the *)
(* attempt), opened (descriptors obtained), closes and munmaps (calls      *)
(* made), logged (lines written by error!).                                *)
(***************************************************************************)
\* An attempt (Shm::new) returns Err: open and create hand it to the caller,
\* open_or_create goes on to create after a failed open.
attempt_failed(o) ==
    IF o.op = "open_or_create" /\ o.flag = "O_RDWR"
    THEN [o EXCEPT !.pc = "shm_open", !.flag = "O_RDWR|O_CREAT"]
    ELSE [o EXCEPT !.pc = "idle", !.ret = "Err"]

\* Shm::new whose Err arm hands the error on without close(fd).
mmap_failed_no_close(o) ==
    attempt_failed([o EXCEPT !.failed = @ \cup {<<o.flag, "mmap">>}])

\* Shm::new, mmap_shm returned Err: close(fd)? comes next.
mmap_failed(o) == [o EXCEPT !.pc = "close", !.failed = @ \cup {<<o.flag, "mmap">>}]

\* drop that leaves at the first failure: no close after a failed munmap.
drop_munmap_leave(o, ok) ==
    IF ok THEN [o EXCEPT !.pc = "drop_close", !.munmaps = @ + 1]
    ELSE [o EXCEPT !.pc = "idle", !.ret = "dropped", !.handle = FALSE, !.munmaps = @ + 1,
                   !.logged = @ + 1]

\* Drop::drop, first statement: munmap; its error is logged.
drop_munmap(o, ok) ==
    [o EXCEPT !.pc = "drop_close", !.munmaps = @ + 1,
              !.logged = IF ok THEN @ ELSE @ + 1,
              !.failed = IF ok THEN @ ELSE @ \cup {<<"drop", "munmap">>}]

\* Drop::drop, second statement: close; its error is logged.
drop_close(o, ok) ==
    [o EXCEPT !.pc = "idle", !.ret = "dropped", !.handle = FALSE, !.fd = FALSE,
              !.closes = @ + 1,
              !.logged = IF ok THEN @ ELSE @ + 1,
              !.failed = IF ok THEN @ ELSE @ \cup {<<"drop", "close">>}]

\* Shm::open / create / open_or_create is called with a size.
SysBegin(op, size) ==
    /\ sys.pc = "idle" /\ ~sys.handle
    /\ sys' = [SysIdle EXCEPT !.pc = "shm_open", !.op = op, !.size = size,
                              !.flag = IF op = "create" THEN "O_RDWR|O_CREAT" ELSE "O_RDWR",
                              !.exists = sys.exists]
    /\ UNCHANGED <<mem, last, ref, wr, rd, hsize, wsize, enc>>

\* shm_open(name, flag, mode)?: without O_CREAT it fails when the object does
\* not exist; with O_CREAT a missing object is created with size 0.
SysShmOpen(ok) ==
    /\ sys.pc = "shm_open"
    /\ ok => (sys.exists \/ sys.flag = "O_RDWR|O_CREAT")
    /\ IF ok
       THEN /\ sys' = [sys EXCEPT !.pc = "fstat", !.fd = TRUE, !.opened = @ + 1,
                                  !.exists = TRUE]
            /\ mem' = IF sys.exists THEN mem ELSE <<>>
       ELSE /\ sys' = attempt_failed([sys EXCEPT !.failed = @ \cup {<<sys.flag, "shm_open">>}])
            /\ mem' = mem
    /\ UNCHANGED <<last, ref, wr, rd, hsize, wsize, enc>>

\* if let Ok(stat) = fstat(fd) { if stat.st_size == 0 { ... } }
SysFstat(ok) ==
    /\ sys.pc = "fstat"
    /\ sys' = [sys EXCEPT !.pc = IF ok /\ Len(mem) = 0 THEN "ftruncate" ELSE "mmap"]
    /\ UNCHANGED <<mem, last, ref, wr, rd, hsize, wsize, enc>>

\* ftruncate(fd, size) on the object of size 0.
SysFtruncate(ok) ==
    /\ sys.pc = "ftruncate"
    /\ IF ok
       THEN /\ mem' = shm_open_size(mem, sys.size)
            /\ sys' = [sys EXCEPT !.pc = "mmap"]
       ELSE /\ mem' = mem
            /\ sys' = [sys EXCEPT !.pc = "close",
                                  !.failed = @ \cup {<<sys.flag, "ftruncate">>}]
    /\ UNCHANGED <<last, ref, wr, rd, hsize, wsize, enc>>

\* close(fd)? after a failed ftruncate or mmap: the attempt returns Err, the
\* error of close if it failed and the first error otherwise.
SysClose(ok) ==
    /\ sys.pc = "close"
    /\ sys' = attempt_failed([sys EXCEPT !.fd = FALSE, !.closes = @ + 1])
    /\ UNCHANGED <<mem, last, ref, wr, rd, hsize, wsize, enc>>

\* Shm::mmap_shm and the match on it in Shm::new.
SysMmap(ok) ==
    /\ sys.pc = "mmap"
    /\ IF ok
       THEN /\ sys' = [sys EXCEPT !.pc = "idle", !.ret = "Ok", !.handle = TRUE]
            /\ hsize' = sys.size
       ELSE /\ sys' = mmap_failed(sys)
            /\ hsize' = hsize
    /\ UNCHANGED <<mem, last, ref, wr, rd, wsize, enc>>

\* The handle goes out of scope: munmap(self.mem, self.size).
DropMunmap(ok) ==
    /\ sys.pc = "idle" /\ sys.handle
    /\ sys' = drop_munmap(sys, ok)
    /\ UNCHANGED <<mem, last, ref, wr, rd, hsize, wsize, enc>>

\* close(self.fd) at the end of drop.
DropClose(ok) ==
    /\ sys.pc = "drop_close"
    /\ sys' = drop_close(sys, ok)
    /\ UNCHANGED <<mem, last, ref, wr, rd, hsize, wsize, enc>>

\* The named object exists with the full size, or does not exist yet.
InitSys ==
    \/ Init
    \/ /\ mem = <<>>
       /\ hsize = RegionSize
       /\ wsize = RegionSize
       /\ last = Call("clear", NoVal, NoVal, NoVal, None)
       /\ ref = [k \in Keys |-> NoVal]
       /\ wr = WriterIdle
       /\ rd = ReaderIdle
       /\ sys = [SysIdle EXCEPT !.exists = FALSE]
       /\ enc = EncIdle

NextSys ==
    \/ \E op \in {"open", "create", "open_or_create"}, size \in OpenSizes : SysBegin(op, size)
    \/ \E ok \in BOOLEAN : SysShmOpen(ok)
    \/ \E ok \in BOOLEAN : SysFstat(ok)
    \/ \E ok \in BOOLEAN : SysFtruncate(ok)
    \/ \E ok \in BOOLEAN : SysClose(ok)
    \/ \E ok \in BOOLEAN : SysMmap(ok)
    \/ \E ok \in BOOLEAN : DropMunmap(ok)
    \/ \E ok \in BOOLEAN : DropClose(ok)

SpecSys == InitSys /\ [][NextSys]_vars

(***************************************************************************)
(* A record goes through to_bytes and from_bytes. The numbers are u64 in   *)
(* the source; here they stay below 2^31 and cover each of the four low    *)
(* bytes and their carries.                                                *)
(***************************************************************************)
RecordTypes == {"Ticker", "Price", "Pair", "Entry"}

EncNumbers == {0, 1, 255, 256, 65535, 65536, 16777216, 2147483647}

\* The values of record type T.
EncInputs(T) ==
    IF T \in {"Ticker", "Price"} THEN EncNumbers
    ELSE [key : EncNumbers, value : EncNumbers]

\* The bytes that follow a record in the slice handed to from_bytes.
EncTails == {<<>>, <<255, 1>>}

\* let mut buffer = vec![0; T::const_size()]; item.to_bytes(&mut buffer)
ToBytes(T, r) ==
    /\ enc.pc = "idle"
    /\ enc' = [pc |-> "encoded", T |-> T, r |-> r, bytes |-> to_bytes(T, r), out |-> NoVal]
    /\ UNCHANGED <<mem, last, ref, wr, rd, hsize, wsize, sys>>

\* T::from_bytes(buffer) on the encoded bytes, other bytes following them.
FromBytes(tail) ==
    /\ enc.pc = "encoded"
    /\ enc' = [enc EXCEPT !.pc = "decoded", !.out = from_bytes(enc.T, enc.bytes \o tail)]
    /\ UNCHANGED <<mem, last, ref, wr, rd, hsize, wsize, sys>>

NextEnc ==
    \/ \E T \in RecordTypes : \E r \in EncInputs(T) : ToBytes(T, r)
    \/ \E tail \in EncTails : FromBytes(tail)

SpecEnc == Init /\ [][NextEnc]_vars

(***************************************************************************)
(* One writer and a reader on the same region, without synchronisation.    *)
(* The writer's add is cut at its stores: each record copy of shift_right, *)
(* the store of the new record, the store of the count. The reader is cut  *)
(* at its loads: the count, each record it indexes. The count is a 4-byte  *)
(* word at offset 0 of a page-aligned mapping, loaded and stored whole. A  *)
(* record is copied with memcpy: a load that overlaps the copy sees mixed  *)
(* bytes, so such a comparison can come out any way.                       *)
(***************************************************************************)
\* The values the concurrent writer adds. No step of add, get or find looks at
\* the value bytes (the comparators read the key bytes only), so one value
\* gives every interleaving of loads and stores that several would.
WriterValues == {1}

\* The slot the writer's next store goes to, if it is inside add.
WriterTarget ==
    CASE wr.pc = "shift" -> wr.i + 1
      [] wr.pc = "store" -> wr.start
      [] OTHER -> NoVal

\* add whose insert arm goes straight to the store of the count.
add_arm_count_first(f, buffer, n) ==
    CASE f.tag = "Panic" -> WriterIdle
      [] f.tag = "Index" ->
           [pc |-> "store", i |-> NoVal, start |-> f.index, insert |-> FALSE,
            buffer |-> buffer]
      [] f.tag = "LastRange" ->
           [pc |-> "set_len", i |-> n - 1, start |-> f.range[1], insert |-> TRUE,
            buffer |-> buffer]

\* The match in add on what find_index returned, n being len(): where the
\* writer goes next. shift_right makes no round when start is the count.
add_arm(f, buffer, n) ==
    CASE f.tag = "Panic" -> WriterIdle
      [] f.tag = "Index" ->
           [pc |-> "store", i |-> NoVal, start |-> f.index, insert |-> FALSE,
            buffer |-> buffer]
      [] f.tag = "LastRange" ->
           [pc |-> IF n - 1 >= f.range[1] THEN "shift" ELSE "store",
            i |-> n - 1, start |-> f.range[1], insert |-> TRUE,
            buffer |-> buffer]

\* SortedSet::add up to the end of find_index (the writer reads alone).
WAddBegin(key, value) ==
    /\ wr.pc = "idle"
    /\ \E buffer \in {PairToBytes([key |-> key, value |-> value])} :
       \E f \in {find_index(mem, PairComparator(buffer))} :
          wr' = add_arm(f, buffer, len(mem))
    /\ UNCHANGED <<mem, last, ref, rd, hsize, wsize, sys, enc>>

\* One round of the loop of shift_right.
WShift ==
    /\ wr.pc = "shift"
    /\ IF shift_one_ok(mem, wr.i)
       THEN /\ mem' = shift_one(mem, wr.i)
            /\ wr' = [wr EXCEPT !.i = wr.i - 1,
                                !.pc = IF wr.i - 1 >= wr.start THEN "shift" ELSE "store"]
       ELSE /\ mem' = mem
            /\ wr' = WriterIdle
    /\ UNCHANGED <<last, ref, rd, hsize, wsize, sys, enc>>

\* store_at_index(start, &buffer) in either arm of add.
WStore ==
    /\ wr.pc = "store"
    /\ \E t \in {store_at_index(mem, wr.start, wr.buffer)} :
          /\ mem' = t.mem
          /\ wr' = IF ~t.panic /\ wr.insert THEN [wr EXCEPT !.pc = "set_len"] ELSE WriterIdle
    /\ UNCHANGED <<last, ref, rd, hsize, wsize, sys, enc>>

\* set_len(self.len() + 1) at the end of the insert arm.
WSetLen ==
    /\ wr.pc = "set_len"
    /\ mem' = set_len(mem, len(mem) + 1)
    /\ wr' = WriterIdle
    /\ UNCHANGED <<last, ref, rd, hsize, wsize, sys, enc>>

\* SortedSet::clear by the writer.
WClear ==
    /\ wr.pc = "idle"
    /\ mem' = clear(mem)
    /\ UNCHANGED <<last, ref, wr, rd, hsize, wsize, sys, enc>>

\* get with the bound test off by one, in the reader.
RGetBeginOffByOne(index) ==
    /\ rd.pc = "idle"
    /\ rd' = IF index > len(mem) THEN ReaderIdle
             ELSE [ReaderIdle EXCEPT !.pc = "deref", !.op = "get", !.index = index,
                                     !.len = len(mem)]
    /\ UNCHANGED <<mem, last, ref, wr, hsize, wsize, sys, enc>>

\* SortedSet::get(index) up to the bound test: the count is loaded.
RGetBegin(index) ==
    /\ rd.pc = "idle"
    /\ rd' = IF index >= len(mem) THEN ReaderIdle
             ELSE [ReaderIdle EXCEPT !.pc = "deref", !.op = "get", !.index = index,
                                     !.len = len(mem)]
    /\ UNCHANGED <<mem, last, ref, wr, hsize, wsize, sys, enc>>

\* SortedSet::iter
RIterBegin ==
    /\ rd.pc = "idle"
    /\ rd' = [ReaderIdle EXCEPT !.pc = "iter", !.op = "iter", !.index = 0]
    /\ UNCHANGED <<mem, last, ref, wr, hsize, wsize, sys, enc>>

\* SetIterator::next: get(self.index), up to the bound test.
RIterNext ==
    /\ rd.pc = "iter"
    /\ rd' = IF rd.index >= len(mem) THEN ReaderIdle
             ELSE [rd EXCEPT !.pc = "deref", !.len = len(mem)]
    /\ UNCHANGED <<mem, last, ref, wr, hsize, wsize, sys, enc>>

\* The index handed to get_by_index by the reader's next step: the index of
\* get and of find's match, or the middle of the range of find_index.
rd_index(r) ==
    CASE r.pc = "deref" -> r.index
      [] r.pc = "probe" -> (r.lo + r.hi) \div 2
      [] OTHER -> NoVal

\* get_by_index(index) in get and in find: the record is loaded. In an
\* iteration the index then moves on.
RDeref ==
    /\ rd.pc = "deref"
    /\ rd' = IF ~get_by_index_ok(mem, rd_index(rd)) THEN [rd EXCEPT !.pc = "panic"]
             ELSE IF rd.op = "iter"
                  THEN [rd EXCEPT !.pc = "iter", !.index = rd.index + 1, !.len = NoVal]
                  ELSE ReaderIdle
    /\ UNCHANGED <<mem, last, ref, wr, hsize, wsize, sys, enc>>

\* SortedSet::find / ShmMap::get up to the loop of find_index: the count is loaded.
RFindBegin(key) ==
    /\ rd.pc = "idle"
    /\ rd' = IF len(mem) = 0 THEN ReaderIdle
             ELSE [ReaderIdle EXCEPT !.pc = "probe", !.op = "find", !.key = key,
                                     !.len = len(mem), !.lo = 0, !.hi = len(mem)]
    /\ UNCHANGED <<mem, last, ref, wr, hsize, wsize, sys, enc>>

\* What the comparison with the record at middle can return right now.
ProbeOutcomes(key, middle) ==
    IF middle = WriterTarget THEN {"Less", "Equal", "Greater"}
    ELSE {Cmp(KeyCmpNew(key), get_by_index(mem, middle))}

\* One round of the loop of find_index.
RProbe ==
    /\ rd.pc = "probe"
    /\ LET middle == rd_index(rd) IN
       IF ~get_by_index_ok(mem, middle) THEN rd' = [rd EXCEPT !.pc = "panic"]
       ELSE \E c \in ProbeOutcomes(rd.key, middle) :
              LET list == IF c = "Less" THEN <<rd.lo, middle>> ELSE <<middle + 1, rd.hi>> IN
              rd' = IF c = "Equal" THEN [rd EXCEPT !.pc = "deref", !.index = middle]
                    ELSE IF list[1] >= list[2] THEN ReaderIdle
                    ELSE [rd EXCEPT !.lo = list[1], !.hi = list[2]]
    /\ UNCHANGED <<mem, last, ref, wr, hsize, wsize, sys, enc>>

NextConc ==
    \/ \E k \in Keys, v \in WriterValues : WAddBegin(k, v)
    \/ WShift
    \/ WStore
    \/ WSetLen
    \/ WClear
    \/ \E i \in 0..MaxRecords : RGetBegin(i)
    \/ RIterBegin
    \/ RIterNext
    \/ RDeref
    \/ \E k \in Keys : RFindBegin(k)
    \/ RProbe

SpecConc == Init /\ [][NextConc]_vars

(***************************************************************************)
(* find_index alone, the comparator answering each probe in any of its     *)
(* three ways: what a reader can meet while a writer changes the records,  *)
(* and more. The region is one made for SearchRecords records and holds    *)
(* any number of them; the handle has the region's size or the size of one *)
(* record. last.ret.probes lists the probes of the running search:         *)
(* <<middle, outcome>>.                                                    *)
(***************************************************************************)
\* The number of records the searched region is made for.
SearchRecords == 3 * MaxRecords

\* PriceOracleCache::calculate_memory_size(SearchRecords)
SearchRegionSize == EntrySize * SearchRecords + LEN_SIZE

RECURSIVE Filled(_)
\* The region after clear() and put of the keys 0, 100, ..., 100 * (n - 1).
Filled(n) ==
    IF n = 0 THEN set_len(ShmNew(<<>>, SearchRegionSize).file, 0)
    ELSE LET buffer == EntryToBytes([key |-> 100 * (n - 1), value |-> 1])
         IN add(Filled(n - 1), buffer, EntryComparator(buffer)).mem

Orderings == {"Less", "Equal", "Greater"}

\* One round of the loop with the outcome c that keeps middle in the range
\* on Greater.
search_step_keep_middle(r, c) ==
    LET middle == (r.lo + r.hi) \div 2
        list == IF c = "Less" THEN <<r.lo, middle>> ELSE <<middle, r.hi>>
    IN IF c = "Equal" THEN [ReaderIdle EXCEPT !.index = middle]
       ELSE IF list[1] >= list[2] THEN ReaderIdle
       ELSE [r EXCEPT !.lo = list[1], !.hi = list[2]]

\* One round of the loop of find_index when the comparison returns c: the
\* reader goes on with the new range, or leaves the loop (with the index
\* found, on Equal).
search_step(r, c) ==
    LET middle == (r.lo + r.hi) \div 2
        list == IF c = "Less" THEN <<r.lo, middle>> ELSE <<middle + 1, r.hi>>
    IN IF c = "Equal" THEN [ReaderIdle EXCEPT !.index = middle]
       ELSE IF list[1] >= list[2] THEN ReaderIdle
       ELSE [r EXCEPT !.lo = list[1], !.hi = list[2]]

\* find_index up to its loop: the count is read once.
SearchBegin ==
    /\ rd.pc = "idle"
    /\ rd' = IF len(Memory(mem, hsize)) = 0 THEN ReaderIdle
             ELSE [ReaderIdle EXCEPT !.pc = "probe", !.op = "find_index",
                                     !.len = len(Memory(mem, hsize)),
                                     !.lo = 0, !.hi = len(Memory(mem, hsize))]
    /\ last' = Call("find_index", NoVal, NoVal, NoVal, [tag |-> "Probes", probes |-> <<>>])
    /\ UNCHANGED <<mem, ref, wr, hsize, wsize, sys, enc>>

\* One round of the loop; get_by_index(middle) panics outside the slice.
SearchProbe(c) ==
    /\ rd.pc = "probe"
    /\ IF ~get_by_index_ok(Memory(mem, hsize), rd_index(rd))
       THEN /\ rd' = [rd EXCEPT !.pc = "panic"]
            /\ last' = last
       ELSE /\ rd' = search_step(rd, c)
            /\ last' = [last EXCEPT !.ret.probes = Append(@, <<rd_index(rd), c>>)]
    /\ UNCHANGED <<mem, ref, wr, hsize, wsize, sys, enc>>

\* A region holding any number of records up to SearchRecords, seen through
\* a handle of either size.
InitSearch ==
    /\ \E n \in 0..SearchRecords : mem = Filled(n)
    /\ hsize \in {SearchRegionSize, LEN_SIZE + PairSize}
    /\ wsize = RegionSize
    /\ last = Call("clear", NoVal, NoVal, NoVal, None)
    /\ ref = [k \in Keys |-> NoVal]
    /\ wr = WriterIdle
    /\ rd = ReaderIdle
    /\ sys = SysIdle
    /\ enc = EncIdle

NextSearch ==
    \/ SearchBegin
    \/ \E c \in Orderings : SearchProbe(c)

\* The thread that runs find_index keeps running: a round that can be made
\* is made.
SpecSearch == InitSearch /\ [][NextSearch]_vars /\ WF_vars(\E c \in Orderings : SearchProbe(c))

(***************************************************************************)
(* Iterators in the process that owns the view. iter() borrows the set, so *)
(* add, put and clear run only while no iterator is alive. A new call of   *)
(* iter() takes the place of the iterator the process had. An iterator is  *)
(* called a bounded number of times after it has returned None.            *)
(***************************************************************************)
\* iter() that takes up the index of the iterator the process had.
new_iter_resumed(r, op) ==
    [ReaderIdle EXCEPT !.pc = "iterating", !.op = op,
                       !.index = IF r.pc = "iterating" THEN r.index ELSE 0]

\* SortedSet::iter / ShmMap::iter: SetIterator { set: self, index: 0 }
new_iter(r, op) == [ReaderIdle EXCEPT !.pc = "iterating", !.op = op, !.index = 0]

\* MapIterator::next's map(|e| (e.key, e.value)) on what SetIterator::next gave.
map_item(value) ==
    IF value.tag = "Some" THEN Some(<<value.val.key, value.val.value>>) ELSE value

\* SortedSet<Pair>::iter
Iter ==
    /\ rd' = new_iter(rd, "iter")
    /\ last' = Call("iter", NoVal, NoVal, NoVal, None)
    /\ UNCHANGED <<mem, ref, wr, hsize, wsize, sys, enc>>

\* ShmMap<Ticker, Price>::iter
MapIter ==
    /\ rd' = new_iter(rd, "map_iter")
    /\ last' = Call("map_iter", NoVal, NoVal, NoVal, None)
    /\ UNCHANGED <<mem, ref, wr, hsize, wsize, sys, enc>>

\* SetIterator::next: get(self.index), then self.index += 1.
IterNext ==
    /\ rd.pc = "iterating" /\ rd.op = "iter"
    /\ rd.index <= MaxRecords + 1
    /\ last' = Call("next", NoVal, NoVal, rd.index, get(Memory(mem, hsize), rd.index, "Pair"))
    /\ rd' = [rd EXCEPT !.index = @ + 1]
    /\ UNCHANGED <<mem, ref, wr, hsize, wsize, sys, enc>>

\* MapIterator::next
MapIterNext ==
    /\ rd.pc = "iterating" /\ rd.op = "map_iter"
    /\ rd.index <= MaxRecords + 1
    /\ last' = Call("map_next", NoVal, NoVal, rd.index,
                    map_item(get(Memory(mem, hsize), rd.index, "Entry")))
    /\ rd' = [rd EXCEPT !.index = @ + 1]
    /\ UNCHANGED <<mem, ref, wr, hsize, wsize, sys, enc>>

\* The iterator goes out of scope.
IterDrop ==
    /\ rd.pc = "iterating"
    /\ rd' = ReaderIdle
    /\ UNCHANGED <<mem, last, ref, wr, hsize, wsize, sys, enc>>

\* add, put and clear between iterations.
AddIdle(key, value) ==
    /\ rd.pc = "idle"
    /\ Add(key, value)

PutIdle(key, value) ==
    /\ rd.pc = "idle"
    /\ Put(key, value)

ClearIdle ==
    /\ rd.pc = "idle"
    /\ Clear

NextIter ==
    \/ Iter
    \/ MapIter
    \/ IterNext
    \/ MapIterNext
    \/ IterDrop
    \/ \E k \in Keys, v \in Values : AddIdle(k, v)
    \/ \E k \in Keys, v \in Values : PutIdle(k, v)
    \/ ClearIdle

SpecIter == Init /\ [][NextIter]_vars

(***************************************************************************)
(* Reading the region, for the properties.                                 *)
(***************************************************************************)
\* Capacity in records implied by the size of the region.
Capacity == (RegionSize - LEN_SIZE) \div PairSize

\* The four count bytes read as a little-endian number.
Count(m) == Byte(m, 0) + 256 * (Byte(m, 1) + 256 * (Byte(m, 2) + 256 * Byte(m, 3)))

\* Indices of the live records that lie inside the region.
LiveIdx(m) == {i \in 0..(Capacity - 1) : i < Count(m)}

\* The 16 bytes of slot i, and the key and value they hold.
SlotBytes(m, i) == Slice(m, LEN_SIZE + PairSize * i, LEN_SIZE + PairSize * (i + 1))
KeyAt(m, i) == read_u64(Slice(m, LEN_SIZE + PairSize * i, LEN_SIZE + PairSize * i + 8))
ValueAt(m, i) == read_u64(Slice(m, LEN_SIZE + PairSize * i + 8, LEN_SIZE + PairSize * (i + 1)))
RecordAt(m, i) == [key |-> KeyAt(m, i), value |-> ValueAt(m, i)]

\* The encoding the last add or put handed to the set.
LastBuffer(l) ==
    IF l.op = "add" THEN PairToBytes([key |-> l.key, value |-> l.value])
    ELSE EntryToBytes([key |-> l.key, value |-> l.value])

IsWrite(l) == l.op \in {"add", "put"}

(***************************************************************************)
(* C1. Sortedness: in every state reached from clear() by add, put and     *)
(* clear, each adjacent pair of live records compares Less under the       *)
(* record's byte comparator, and to_vec yields the records in that order.  *)
(***************************************************************************)
Sortedness ==
    /\ \A i \in LiveIdx(mem) :
         (i + 1) \in LiveIdx(mem) =>
            /\ PairCmp(SlotBytes(mem, i), SlotBytes(mem, i + 1)) = "Less"
            /\ EntryCmp(SlotBytes(mem, i), SlotBytes(mem, i + 1)) = "Less"
    /\ LET v == to_vec(mem) IN
       \A i \in 1..(Len(v) - 1) : v[i].key < v[i + 1].key

\* A full set whose last insert went to the front, shifting every record.
SortednessWitness ==
    /\ IsWrite(last) /\ last.ret.tag = "LastRange"
    /\ Count(mem) = MaxRecords
    /\ KeyAt(mem, 0) = last.key
    /\ KeyAt(mem, MaxRecords - 1) = 100 * MaxRecords

(***************************************************************************)
(* C2. In-place update: an add or put of a record that compares Equal to a *)
(* live record leaves the count as it was, writes the new encoding into    *)
(* that record's slot and changes no other byte; and no two live records   *)
(* compare Equal.                                                          *)
(***************************************************************************)
EqualIdx(m, buffer) == {i \in LiveIdx(m) : PairCmp(buffer, SlotBytes(m, i)) = "Equal"}

UpdateStep ==
    (IsWrite(last') /\ EqualIdx(mem, LastBuffer(last')) # {}) =>
        /\ Count(mem') = Count(mem)
        /\ \E i \in EqualIdx(mem, LastBuffer(last')) :
             \A o \in 0..(RegionSize - 1) :
                Byte(mem', o) =
                    IF LEN_SIZE + PairSize * i <= o /\ o < LEN_SIZE + PairSize * (i + 1)
                    THEN Byte(LastBuffer(last'), o - (LEN_SIZE + PairSize * i))
                    ELSE Byte(mem, o)
        /\ BLen(mem') = RegionSize

NoEqualLive ==
    \A i, j \in LiveIdx(mem) :
        i # j => PairCmp(SlotBytes(mem, i), SlotBytes(mem, j)) # "Equal"

\* C2: every add or put of a record equal to a live one is an in-place update
\* (UpdateStep), and no two live records compare Equal.
InPlaceUpdate == [][UpdateStep]_vars /\ []NoEqualLive

\* An update of the middle record of a full set has run, with the second value.
InPlaceUpdateWitness ==
    /\ IsWrite(last) /\ last.ret.tag = "Index"
    /\ Count(mem) = MaxRecords
    /\ KeyAt(mem, 1) = last.key /\ ValueAt(mem, 1) = last.value /\ last.value = 2

(***************************************************************************)
(* C3. Map semantics: get(k) is Some(v) for the value v of the last put of *)
(* k since the last clear and None when there was none, and the number of  *)
(* entries is the number of keys put (a put on an existing key keeps it).  *)
(***************************************************************************)
Expected(k) == IF ref[k] = NoVal THEN None ELSE Some(ref[k])

\* C3: get agrees with the abstract map for every key, and so does the size.
MapSemantics ==
    /\ \A k \in Keys : map_get(mem, k) = Expected(k)
    /\ last.op = "map_get" => last.ret = Expected(last.key)
    /\ Count(mem) = Cardinality({k \in Keys : ref[k] # NoVal})

\* get has returned the second value of a key of a full map.
MapSemanticsWitness ==
    /\ last.op = "map_get" /\ last.ret = Some(2)
    /\ Count(mem) = MaxRecords
    /\ \E k \in Keys : ref[k] = 1

(***************************************************************************)
(* C4. Search correctness: on every reachable (strictly sorted) set and    *)
(* for a key probe or a whole-record probe, find returns Some exactly when *)
(* a live record compares Equal to the probe, the record returned being    *)
(* the decoding of the bytes at that index; otherwise it returns None.     *)
(***************************************************************************)
Probes ==
    {KeyCmpNew(k) : k \in Keys}
        \cup {PairComparator(PairToBytes([key |-> k, value |-> v])) : k \in Keys, v \in Values}

FindAnswers(r, probe) ==
    LET hits == {i \in LiveIdx(mem) : Cmp(probe, SlotBytes(mem, i)) = "Equal"} IN
    IF hits = {} THEN r = None
    ELSE \E i \in hits : r = Some(RecordAt(mem, i))

\* C4: find answers as FindAnswers says, for every probe and for the last call.
SearchCorrect ==
    /\ \A probe \in Probes : FindAnswers(find(mem, probe, "Pair"), probe)
    /\ last.op = "find" => FindAnswers(last.ret, KeyCmpNew(last.key))

\* find has returned the lowest record of a full set (two probes were needed).
SearchCorrectWitness ==
    /\ last.op = "find" /\ last.ret.tag = "Some"
    /\ Count(mem) = MaxRecords
    /\ last.ret.val = RecordAt(mem, 0)

(***************************************************************************)
(* C5. No record is lost or invented: to_vec is the list of the last       *)
(* record added for each distinct key since clear(), in ascending key      *)
(* order, and len is the number of distinct keys.                          *)
(***************************************************************************)
RECURSIVE Ascending(_)
Ascending(S) ==
    IF S = {} THEN <<>>
    ELSE LET least == CHOOSE k \in S : \A other \in S : k <= other
         IN <<[key |-> least, value |-> ref[least]]>> \o Ascending(S \ {least})

Reference == Ascending({k \in Keys : ref[k] # NoVal})

\* C5: to_vec is the reference list and len its length.
NoLossNoInvention ==
    /\ to_vec(mem) = Reference
    /\ len(mem) = Len(Reference)
    /\ last.op = "to_vec" => last.ret = Some(Reference)

\* to_vec of a full set that holds the two-byte key and a second value.
NoLossNoInventionWitness ==
    /\ last.op = "to_vec"
    /\ Len(last.ret.val) = MaxRecords
    /\ last.ret.val[MaxRecords].key = 100 * MaxRecords
    /\ \E i \in 1..MaxRecords : last.ret.val[i].value = 2

(***************************************************************************)
(* C6. Capacity boundary: an add or put that updates, or that inserts      *)
(* while len < capacity, succeeds; an insert of a new record at            *)
(* len = capacity panics and leaves every byte of the region, the count    *)
(* included, as it was, wherever the insertion boundary lies; the region   *)
(* never has a byte at an offset >= its size.                              *)
(***************************************************************************)
CapacityStep ==
    IsWrite(last') =>
        /\ BLen(mem') = RegionSize
        /\ IF EqualIdx(mem, LastBuffer(last')) # {} \/ Count(mem) < Capacity
           THEN last'.ret.tag \in {"Index", "LastRange"}
           ELSE last'.ret.tag = "Panic" /\ mem' = mem

\* C6: every add or put step obeys the capacity boundary (CapacityStep).
CapacityBoundary == [][CapacityStep]_vars

\* An insert in front of every record of a full set has been refused.
CapacityBoundaryWitness ==
    /\ IsWrite(last) /\ last.ret.tag = "Panic"
    /\ Count(mem) = Capacity
    /\ last.key < KeyAt(mem, 0)

(***************************************************************************)
(* C7. Count bound: the count never exceeds the capacity implied by the    *)
(* region size, and every live record lies inside the region at            *)
(* [4 + i*record_size, 4 + (i+1)*record_size).                             *)
(***************************************************************************)
CountBound ==
    /\ Count(mem) <= (RegionSize - LEN_SIZE) \div PairSize
    /\ len(mem) = Count(mem)
    /\ \A i \in 0..(Count(mem) - 1) :
         /\ offset(i) = LEN_SIZE + i * PairSize
         /\ offset(i) + PairSize <= RegionSize
         /\ \A o \in offset(i)..(offset(i) + PairSize - 1) : o < BLen(mem)

\* The set is full after an insert into the last slot but one bytes of slack remain.
CountBoundWitness ==
    /\ IsWrite(last) /\ last.ret.tag = "LastRange"
    /\ Count(mem) = Capacity
    /\ offset(Count(mem)) + PairSize > RegionSize

(***************************************************************************)
(* C9. Indexed access: get(index) is the decoding of slot index when       *)
(* index < len and None for every index >= len; after clear, len is 0,     *)
(* is_empty holds and get(0) is None.                                      *)
(***************************************************************************)
GetAnswer(i) == IF i < Count(mem) THEN Some(RecordAt(mem, i)) ELSE None

\* C9: get answers as GetAnswer says at every index; clear empties the set.
IndexedAccess ==
    /\ \A i \in 0..(MaxRecords + 1) : get(mem, i, "Pair") = GetAnswer(i)
    /\ last.op = "get" => last.ret = GetAnswer(last.index)
    /\ last.op = "is_empty" => last.ret = Some(Count(mem) = 0)
    /\ last.op \in {"clear", "map_clear"} =>
         /\ len(mem) = 0
         /\ is_empty(mem)
         /\ get(mem, 0, "Pair") = None

\* get(len) has returned None although the slot holds the bytes of an old record.
IndexedAccessWitness ==
    /\ last.op = "get" /\ last.ret = None
    /\ last.index = Count(mem) /\ last.index < Capacity
    /\ KeyAt(mem, last.index) # 0

(***************************************************************************)
(* C8. Memory safety under concurrent access: with one writer inside       *)
(* add or clear and a reader inside get, find or an iteration, every       *)
(* record the reader loads lies inside the region and below                *)
(* 4 + c * record_size for the count c the reader loaded at the start of   *)
(* that call; the reader's slice expressions never go out of bounds.       *)
(***************************************************************************)
ReaderLoadStep ==
    (rd' # rd /\ rd_index(rd) # NoVal) =>
        LET o == LEN_SIZE + PairSize * rd_index(rd) IN
        /\ rd'.pc # "panic"
        /\ LEN_SIZE <= o
        /\ o + PairSize <= RegionSize
        /\ o + PairSize <= LEN_SIZE + rd.len * PairSize

\* C8: every load of the reader is in bounds (ReaderLoadStep), and the reader
\* never panics.
ReaderInBounds == [][ReaderLoadStep]_vars /\ [](rd.pc # "panic")

\* The reader loaded the count of a full set; the writer has cleared the set
\* since and is shifting into the slot the reader is about to load.
ReaderInBoundsWitness ==
    /\ rd.pc \in {"probe", "deref"}
    /\ rd.len = MaxRecords
    /\ Count(mem) < rd.len
    /\ wr.pc = "shift"
    /\ rd_index(rd) = WriterTarget

(***************************************************************************)
(* C10. Reattachment preserves content. What a view over a handle of a     *)
(* given size reports: len() and get(index) for every index.               *)
(***************************************************************************)
ReportLen(file, size) == len(Memory(file, size))
ReportAt(file, size, i) == get(Memory(file, size), i, "Pair")
Reports(file, size) ==
    [len |-> ReportLen(file, size),
     recs |-> [i \in 0..MaxRecords |-> ReportAt(file, size, i)]]

IsAttach(l) == l.op \in {"open", "create", "open_or_create"}

\* C10 as claimed: open, create and open_or_create on the region, whose size
\* is nonzero, change none of its bytes, and the view over the new handle
\* reports the same len() and the same record at every index as the view
\* that wrote the region last.
ReattachSameView ==
    [][IsAttach(last') =>
          /\ mem' = mem
          /\ Reports(mem', hsize') = Reports(mem, wsize)]_vars

\* C10 as amended: the bytes are unchanged and len() is the same; the record
\* is the same at every index whose slot lies inside both the new mapping and
\* the mapping of the last writer, and every index >= len() gives None in
\* both. (A handle opened with the size the region was created with has
\* every live slot inside its mapping.)
SlotInside(i, size) == LEN_SIZE + PairSize * (i + 1) <= size

ReattachStep ==
    IsAttach(last') =>
        /\ mem' = mem
        /\ Len(mem') = RegionSize
        /\ ReportLen(mem', hsize') = ReportLen(mem, wsize)
        /\ \A i \in 0..MaxRecords :
             (i >= Count(mem) \/ (SlotInside(i, hsize') /\ SlotInside(i, wsize))) =>
                 /\ ReportAt(mem', hsize', i) = ReportAt(mem, wsize, i)
                 /\ ReportAt(mem', hsize', i) = GetAnswer(i)
        /\ hsize' = RegionSize /\ wsize = RegionSize =>
             Reports(mem', hsize') = Reports(mem, wsize)

\* C10, amended: every attach step preserves bytes and reports (ReattachStep).
ReattachPreserves == [][ReattachStep]_vars

\* A handle of the full size has been attached to a full set that was written
\* through a handle of the full size; its view reports the last record.
ReattachPreservesWitness ==
    /\ IsAttach(last)
    /\ hsize = RegionSize /\ wsize = RegionSize
    /\ Count(mem) = MaxRecords
    /\ ReportAt(mem, hsize, MaxRecords - 1) = Some(RecordAt(mem, MaxRecords - 1))

(***************************************************************************)
(* C11. Construction failure without a leak: when shm_open, ftruncate or   *)
(* mmap fails during Shm::open or Shm::create the call returns Err and no  *)
(* handle; every descriptor the call obtained has been closed when it      *)
(* returns Err; open_or_create returns Err only when its open attempt and  *)
(* its create attempt both failed.                                         *)
(***************************************************************************)
\* The system calls of construction that failed in the attempt made with flag.
FailedIn(flag) == {f \in sys.failed : f[1] = flag}

Returned == sys.pc = "idle" /\ sys.ret \in {"Ok", "Err"}

\* C11: a returned call gives Err exactly when an attempt it relied on
\* failed, and then holds no handle and no open descriptor.
ConstructionFailure ==
    /\ Returned /\ sys.op \in {"open", "create"} /\ sys.failed # {} => sys.ret = "Err"
    /\ Returned /\ sys.ret = "Err" =>
          /\ ~sys.handle
          /\ ~sys.fd
          /\ sys.closes = sys.opened
    /\ Returned /\ sys.ret = "Err" /\ sys.op = "open_or_create" =>
          FailedIn("O_RDWR") # {} /\ FailedIn("O_RDWR|O_CREAT") # {}
    /\ Returned /\ sys.ret = "Ok" =>
          sys.handle /\ sys.fd /\ sys.opened - sys.closes = 1
    /\ sys.fd <=> sys.opened - sys.closes = 1

\* open_or_create has returned Err after its open attempt failed in mmap and
\* its create attempt failed in ftruncate: two descriptors, both closed.
ConstructionFailureWitness ==
    /\ Returned /\ sys.ret = "Err" /\ sys.op = "open_or_create"
    /\ <<"O_RDWR", "mmap">> \in sys.failed
    /\ <<"O_RDWR|O_CREAT", "ftruncate">> \in sys.failed
    /\ sys.opened = 2 /\ sys.closes = 2

(***************************************************************************)
(* C12. Teardown: dropping a handle calls munmap and then close, each      *)
(* exactly once; a failed munmap does not prevent the close; neither       *)
(* failure is propagated, each is logged and the drop completes.           *)
(***************************************************************************)
\* The failures of the system calls of drop.
DropFailures == {f \in sys.failed : f[1] = "drop"}

\* One step of the process seen from drop.
TeardownStep ==
    /\ sys.pc = "idle" /\ sys.handle =>
          /\ sys'.pc = "drop_close"
          /\ sys'.munmaps = 1 /\ sys'.closes = sys.closes
          /\ sys'.handle /\ sys'.fd
    /\ sys.pc = "drop_close" =>
          /\ sys'.pc = "idle" /\ sys'.ret = "dropped"
          /\ sys'.munmaps = 1 /\ sys'.closes = sys.closes + 1
          /\ ~sys'.handle /\ ~sys'.fd
          /\ sys'.logged = Cardinality(DropFailures')

\* C12: every step of drop is as TeardownStep says, and a finished drop has
\* made one munmap and has closed every descriptor the handle's call opened.
Teardown ==
    /\ [][TeardownStep]_vars
    /\ [](sys.ret = "dropped" =>
            sys.pc = "idle" /\ sys.munmaps = 1 /\ sys.closes = sys.opened)

\* A drop has finished after munmap and close both failed.
TeardownWitness ==
    /\ sys.pc = "idle" /\ sys.ret = "dropped"
    /\ DropFailures = {<<"drop", "munmap">>, <<"drop", "close">>}
    /\ sys.logged = 2

(***************************************************************************)
(* C13. Encoding round trip: for Ticker, Price, Pair and Entry<Ticker,     *)
(* Price>, from_bytes(to_bytes(r)) = r, the encoding takes const_size()    *)
(* bytes and the decoding reads no more than those, and Entry's const_size *)
(* is the key's plus the value's.                                          *)
(***************************************************************************)
\* C13: an encoded record has const_size() bytes, each a byte; a decoded one
\* is the record that was encoded; Entry is its key followed by its value.
RoundTrip ==
    /\ enc.pc # "idle" =>
          /\ Len(enc.bytes) = const_size(enc.T)
          /\ \A i \in 1..Len(enc.bytes) : enc.bytes[i] \in 0..255
    /\ enc.pc = "decoded" => enc.out = enc.r
    /\ enc.pc # "idle" /\ enc.T = "Entry" =>
          enc.bytes = TickerToBytes(enc.r.key) \o PriceToBytes(enc.r.value)
    /\ const_size("Entry") = const_size("Ticker") + const_size("Price")

\* An Entry whose key and value need all four low bytes has been decoded from
\* a slice longer than the record.
RoundTripWitness ==
    /\ enc.pc = "decoded" /\ enc.T = "Entry"
    /\ enc.r = [key |-> 2147483647, value |-> 16777216]
    /\ enc.out = enc.r

(***************************************************************************)
(* C14. Shift-insert effect: when add or put finds no equal record and     *)
(* returns, with start the insertion boundary, the count has grown by one, *)
(* the records below start are as before, slot start holds the new         *)
(* encoding and each old record at i >= start is now at i + 1. (The shift  *)
(* goes from the highest index down; going up would overwrite records      *)
(* before they are copied.)                                                *)
(***************************************************************************)
\* The number of live records that compare Less than buffer.
Boundary(m, buffer) ==
    Cardinality({i \in LiveIdx(m) : PairCmp(SlotBytes(m, i), buffer) = "Less"})

\* The effect of an insert of buffer at start on the region m, giving n.
Inserted(m, n, buffer, start) ==
    /\ Count(n) = Count(m) + 1
    /\ \A i \in 0..(start - 1) : SlotBytes(n, i) = SlotBytes(m, i)
    /\ SlotBytes(n, start) = buffer
    /\ \A i \in start..(Count(m) - 1) : SlotBytes(n, i + 1) = SlotBytes(m, i)
    /\ \A o \in (LEN_SIZE + PairSize * (Count(m) + 1))..(RegionSize - 1) :
          Byte(n, o) = Byte(m, o)

\* C14: every add or put that finds no equal record and returns has the
\* effect of an insert at the boundary.
ShiftInsertEffect ==
    [][(/\ last'.ret.tag # "Panic"
        /\ IsWrite(last'))
          => \E buffer \in {LastBuffer(last')} :
                EqualIdx(mem, buffer) = {}
                  => \E start \in {Boundary(mem, buffer)} :
                        Inserted(mem, mem', buffer, start)]_vars

\* put has inserted below every record of a set that is now full: all the
\* records that were there have moved up.
ShiftInsertEffectWitness ==
    /\ last.op = "put" /\ last.ret.tag = "LastRange"
    /\ Count(mem) = MaxRecords
    /\ KeyAt(mem, 0) = last.key /\ ValueAt(mem, 0) = last.value
    /\ \A i \in 1..(MaxRecords - 1) : KeyAt(mem, i) > last.key

(***************************************************************************)
(* C15. Insertion boundary: for a probe that compares Equal to no live     *)
(* record, find_index returns LastRange (lo, hi) with lo = hi and          *)
(* 0 <= lo <= len(), every record below lo being less than the probe and   *)
(* every record from lo on being greater; on an empty set it is (0, 0).    *)
(***************************************************************************)
\* What find_index(probe) must be on the region when no record is Equal.
\* Cmp(probe, record) = "Greater" says that the record is less than the probe.
BoundaryOf(probe) ==
    LET f == find_index(mem, probe) IN
    /\ f.tag = "LastRange"
    /\ f.range[1] = f.range[2]
    /\ 0 <= f.range[1] /\ f.range[1] <= len(mem)
    /\ \A i \in LiveIdx(mem) : i < f.range[1] => Cmp(probe, SlotBytes(mem, i)) = "Greater"
    /\ \A i \in LiveIdx(mem) : i >= f.range[1] => Cmp(probe, SlotBytes(mem, i)) = "Less"
    /\ Count(mem) = 0 => f.range = <<0, 0>>

\* C15: find_index gives the boundary for every probe without an equal record.
InsertionBoundary ==
    \A probe \in Probes :
        (\A i \in LiveIdx(mem) : Cmp(probe, SlotBytes(mem, i)) # "Equal") => BoundaryOf(probe)

\* find has looked for a key that lies between the first and the last record
\* of a full set and is not in it.
InsertionBoundaryWitness ==
    /\ last.op = "find" /\ last.ret = None
    /\ Count(mem) = MaxRecords
    /\ KeyAt(mem, 0) < last.key /\ last.key < KeyAt(mem, MaxRecords - 1)
    /\ find_index(mem, KeyCmpNew(last.key)).range[1] \in 1..(MaxRecords - 1)

(***************************************************************************)
(* C16. Binary search terminates: whatever the count and whatever the      *)
(* comparator answers, each probe is at an index with                      *)
(* lo <= mid < hi <= len (len read at the start) and strictly shrinks the  *)
(* range [lo, hi), so the loop ends after finitely many probes.            *)
(***************************************************************************)
\* A round of the loop: where it probes, and what range it leaves.
ProbeShrinks ==
    rd.pc = "probe" =>
        /\ rd.lo <= rd_index(rd) /\ rd_index(rd) < rd.hi /\ rd.hi <= rd.len
        /\ rd.len = len(Memory(mem, hsize))
        /\ rd'.pc = "probe" =>
              /\ rd.lo <= rd'.lo /\ rd'.lo < rd'.hi /\ rd'.hi <= rd.hi
              /\ rd'.hi - rd'.lo < rd.hi - rd.lo
              /\ rd'.len = rd.len

\* The probes made so far are fewer than the count allows: k probes need a
\* count of at least 2^(k-1).
ProbesBounded ==
    last.op = "find_index" =>
        Len(last.ret.probes) = 0 \/ 2 ^ (Len(last.ret.probes) - 1) <= len(Memory(mem, hsize))

\* C16: every round shrinks the range, the probes are bounded, and a search
\* that is in its loop leaves it.
SearchTerminates ==
    /\ [][ProbeShrinks]_vars
    /\ []ProbesBounded
    /\ (rd.pc = "probe") ~> (rd.pc # "probe")

\* A search over SearchRecords records has ended on an empty range after the
\* comparator answered Less and then Greater for the same record or others.
SearchTerminatesWitness ==
    /\ rd.pc = "idle" /\ last.op = "find_index"
    /\ len(Memory(mem, hsize)) = SearchRecords
    /\ Len(last.ret.probes) >= 3
    /\ \A i \in 1..Len(last.ret.probes) : last.ret.probes[i][2] # "Equal"
    /\ \E i, j \in 1..Len(last.ret.probes) :
          last.ret.probes[i][2] = "Less" /\ last.ret.probes[j][2] = "Greater"

(***************************************************************************)
(* C17. Value independence of ordering: Entry's comparator and the key     *)
(* probe read the key bytes only. From any map state, put(k, v1) and       *)
(* put(k, v2) choose the same slot and the same count and give regions     *)
(* that differ in the value bytes of k's slot only; two entries with equal *)
(* keys and different values compare Equal.                                *)
(***************************************************************************)
\* The offsets at which the regions m and n differ.
DiffOffsets(m, n) == {o \in 0..(RegionSize - 1) : Byte(m, o) # Byte(n, o)}

\* put(k, v1) and put(k, v2) from the region as it is, side by side.
SameSlot(k, v1, v2) ==
    LET b1 == EntryToBytes([key |-> k, value |-> v1])
        b2 == EntryToBytes([key |-> k, value |-> v2])
        f1 == find_index(mem, EntryComparator(b1))
        f2 == find_index(mem, EntryComparator(b2))
        r1 == add(mem, b1, EntryComparator(b1))
        r2 == add(mem, b2, EntryComparator(b2))
        slot == IF f1.tag = "Index" THEN f1.index ELSE f1.range[1]
    IN /\ f1 = f2
       /\ r1.panic = r2.panic /\ r1.arm = r2.arm
       /\ Count(r1.mem) = Count(r2.mem)
       /\ \A o \in DiffOffsets(r1.mem, r2.mem) :
             /\ LEN_SIZE + PairSize * slot + TickerSize <= o
             /\ o < LEN_SIZE + PairSize * (slot + 1)
       /\ ~r1.panic => (/\ SlotBytes(r1.mem, slot) = b1
                        /\ SlotBytes(r2.mem, slot) = b2
                        /\ DiffOffsets(r1.mem, r2.mem) # {})
       /\ EntryCmp(b1, b2) = "Equal"
       /\ Cmp(EntryComparator(b1), b2) = "Equal"
       /\ Cmp(KeyCmpNew(k), b1) = "Equal" /\ Cmp(KeyCmpNew(k), b2) = "Equal"

\* C17: in every state, for every key, the two puts agree on everything but
\* the value bytes.
ValueIndependence ==
    \A k \in Keys : \A v1, v2 \in Values : v1 < v2 => SameSlot(k, v1, v2)

\* put has replaced the value of a key that lies between two others: the
\* same put with the other value would land on the same, existing slot.
ValueIndependenceWitness ==
    /\ last.op = "put" /\ last.ret.tag = "Index"
    /\ Count(mem) = MaxRecords
    /\ KeyAt(mem, 1) = last.key /\ ValueAt(mem, 1) = last.value
    /\ last.value = 2

(***************************************************************************)
(* C18. Iteration is finite and restartable: with no mutation while it     *)
(* runs, an iterator of the set or of the map yields len() items, the item *)
(* at position i being get(i) (for the map the (key, value) pair of entry  *)
(* i, in ascending key order), then None; iter() starts again at index 0.  *)
(***************************************************************************)
\* What the call of next at position i must return.
ItemAt(op, i) ==
    IF i >= Count(mem) THEN None
    ELSE IF op = "map_next" THEN Some(<<KeyAt(mem, i), ValueAt(mem, i)>>)
    ELSE Some(RecordAt(mem, i))

IsNext(l) == l.op \in {"next", "map_next"}

\* One step seen from the iterator.
IterationStep ==
    /\ (last'.op \in {"iter", "map_iter"} /\ last' # last) =>
          /\ rd'.pc = "iterating" /\ rd'.index = 0
          /\ mem' = mem
    /\ (last'.op \in {"iter", "map_iter"} /\ rd'.pc = "iterating") => rd'.index = 0
    /\ (IsNext(last') /\ rd.pc = "iterating" /\ rd'.pc = "iterating" /\ rd' # rd) =>
          /\ last'.index = rd.index /\ rd'.index = rd.index + 1
          /\ mem' = mem
          /\ last'.ret = ItemAt(last'.op, rd.index)
          /\ last'.ret = IF last'.op = "map_next"
                         THEN map_item(get(mem, rd.index, "Entry"))
                         ELSE get(mem, rd.index, "Pair")
          /\ (last'.ret = None) <=> (rd.index >= len(mem))
          /\ (IsNext(last) /\ last.ret # None /\ last'.ret # None) =>
                KeyAt(mem, last.index) < KeyAt(mem, last'.index)
    /\ rd.pc = "iterating" => (mem' = mem \/ rd'.pc = "idle")

\* C18: every step of an iteration is as IterationStep says, and the
\* iteration run to its end (to_vec) has len() items.
Iteration ==
    /\ [][IterationStep]_vars
    /\ [](Len(to_vec(mem)) = Count(mem))

\* A second iterator of the map has yielded the last entry of a full map:
\* its next call is at index len().
IterationWitness ==
    /\ rd.pc = "iterating" /\ rd.op = "map_iter"
    /\ Count(mem) = MaxRecords /\ rd.index = MaxRecords
    /\ last.op = "map_next" /\ last.index = MaxRecords - 1
    /\ last.ret = Some(<<100 * MaxRecords, 2>>)

(***************************************************************************)
(* C19. clear() writes the count only: afterwards the count is 0 and every *)
(* byte from offset 4 on is as before. The bytes left behind never affect  *)
(* a later operation: adds after clear() give the live records they give   *)
(* on a zero-filled region.                                                *)
(***************************************************************************)
\* The end of the last live slot of m.
LiveEnd(m) == LEN_SIZE + PairSize * Count(m)

\* m with every byte after its live records set to zero: what a run of the
\* same adds on a zero-filled region has where m has bytes left behind.
Zeroed(m) == SubSeq(m, 1, LiveEnd(m)) \o [o \in 1..(BLen(m) - LiveEnd(m)) |-> 0]

\* The count and the live records of m.
LivePart(m) == SubSeq(m, 1, LiveEnd(m))

\* A step of clear or ShmMap::clear.
ClearStep ==
    last'.op \in {"clear", "map_clear"} /\ last' # last =>
        /\ Count(mem') = 0
        /\ \A o \in LEN_SIZE..(RegionSize - 1) : Byte(mem', o) = Byte(mem, o)
        /\ BLen(mem') = RegionSize

\* With a repeated clear the call record does not change: the bytes after
\* the count are never changed by a step that leaves the count at 0 and the
\* call record at clear.
ClearFrame ==
    last'.op \in {"clear", "map_clear"} =>
        \A o \in LEN_SIZE..(RegionSize - 1) : Byte(mem', o) = Byte(mem, o)

\* Each operation gives on the region what it gives on the zeroed region,
\* and an add leaves the zeroed region zeroed: by induction a run of adds
\* after clear() has the live records of the same run on a zero-filled region.
SameAsZeroed ==
    /\ \A k \in Keys : \A v \in Values :
          LET buffer == PairToBytes([key |-> k, value |-> v])
              r == add(mem, buffer, PairComparator(buffer))
              z == add(Zeroed(mem), buffer, PairComparator(buffer))
          IN /\ r.panic = z.panic /\ r.arm = z.arm
             /\ LivePart(r.mem) = LivePart(z.mem)
             /\ z.mem = Zeroed(r.mem)
    /\ \A k \in Keys : map_get(mem, k) = map_get(Zeroed(mem), k)
    /\ \A i \in 0..(MaxRecords + 1) : get(mem, i, "Pair") = get(Zeroed(mem), i, "Pair")
    /\ to_vec(mem) = to_vec(Zeroed(mem))
    /\ Count(mem) = 0 => LivePart(mem) = LivePart(clear(ShmNew(<<>>, RegionSize).file))

\* C19: clear changes the count only, and no operation depends on the bytes
\* after the live records.
ClearWritesCount ==
    /\ [][ClearStep /\ ClearFrame]_vars
    /\ []SameAsZeroed

\* After a clear of a full set a record has been added: the bytes of two old
\* records are still there after the live one.
ClearWritesCountWitness ==
    /\ last.op = "add" /\ last.ret.tag = "LastRange"
    /\ Count(mem) = 1
    /\ KeyAt(mem, 0) = 0
    /\ KeyAt(mem, 1) > 0 /\ KeyAt(mem, MaxRecords - 1) = 100 * MaxRecords
    /\ mem # Zeroed(mem)

(***************************************************************************)
(* C20. Publication order of a shift-insert: with one writer, after each   *)
(* record copy of the shift, after the store into slot start and after the *)
(* store of the count, the records below the stored count are in           *)
(* non-descending order (one adjacent pair may be equal for a while, no    *)
(* pair is ever inverted); the count grows only after the shifted records  *)
(* and the new record are written, and the array it then covers is         *)
(* strictly sorted.                                                        *)
(***************************************************************************)
\* The adjacent pairs of live records that compare as c.
AdjacentPairs(m, c) ==
    {i \in LiveIdx(m) : i + 1 \in LiveIdx(m) /\ PairCmp(SlotBytes(m, i), SlotBytes(m, i + 1)) = c}

\* A step that makes the count grow.
CountGrows ==
    Count(mem') > Count(mem) =>
        /\ wr.pc = "set_len" /\ wr'.pc = "idle"
        /\ Count(mem') = Count(mem) + 1
        /\ SlotBytes(mem, wr.start) = wr.buffer
        /\ \A o \in LEN_SIZE..(RegionSize - 1) : Byte(mem', o) = Byte(mem, o)
        /\ AdjacentPairs(mem', "Less") = {i \in LiveIdx(mem') : i + 1 \in LiveIdx(mem')}

\* C20: no adjacent live pair is inverted in any state, at most one is equal,
\* none is equal between two calls of the writer, and the count grows last.
PublicationOrder ==
    /\ [](AdjacentPairs(mem, "Greater") = {})
    /\ [](Cardinality(AdjacentPairs(mem, "Equal")) <= 1)
    /\ [](wr.pc \in {"idle", "set_len"} => AdjacentPairs(mem, "Equal") = {})
    /\ [][CountGrows]_vars

\* The writer, shifting to insert below two records, has copied the lower
\* one: the reader can see it twice.
PublicationOrderWitness ==
    /\ wr.pc = "store" /\ wr.insert /\ wr.start = 0
    /\ Count(mem) = 2
    /\ AdjacentPairs(mem, "Equal") = {0}

====
